---- MODULE Spec2Model ----
(***************************************************************************)
(* Motor-condition monitor: the Sensing Node sketch (Arduino Nano, listed  *)
(* in README.md) and the Forwarding Node sketch (ESP8266 .ino).            *)
(*                                                                         *)
(* Text is modelled as sequences of one-character strings, so that the     *)
(* encoder (sprintf/strcat) and the decoder (sscanf) work on characters.   *)
(* The Nano is an AVR: int is 16 bits wide, unsigned long is 32 bits.      *)
(***************************************************************************)
EXTENDS Integers, Sequences, FiniteSets, TLC

VARIABLES
    \* ---- Sensing Node ----
    pcS,            \* position of the main loop: "loop", "detached", "computed", "reset", "attached"
    attached,       \* TRUE while countPulse is attached to the speed-sensor interrupt
    pending,        \* an edge latched by the hardware while the interrupt was detached
    pulseCount,     \* volatile int pulseCount
    prpm,           \* int prpm
    now,            \* millis()
    startTime,      \* unsigned long startTime
    Sensor1_Val, Sensor2_Val, Sensor3_Val, Sensor4_Val,
    Sensor5_Val, Sensor6_Val, Sensor7_Val, Sensor8_Val,
    RLY1_STATUS, RLY2_STATUS, RLY3_STATUS,
    pin,            \* levels of the output pins RLY1, RLY2, RLY3
    pinWrites,      \* digitalWrite calls per channel in the latest RelayOperation
    yar,            \* char yar[10], the combined relay status buffer
    espOut,         \* the bytes of the latest esp.print call
    \* ---- history of the pulse train (not program state) ----
    edgesSince,     \* rising edges that occurred since the latest counter reset
    edgesAtRead,    \* edgesSince at the moment the running Cal_RPM read the counter
    used,           \* the pulse count the running Cal_RPM used for the rate
    discarded,      \* the pulse count the reset of the running Cal_RPM threw away
    prpmBefore,     \* prpm before the running Cal_RPM changed it
    dhtFailed,      \* TRUE when DHT11_read of the latest window returned early
    rawCurrent,     \* what analogRead(CURRENT_SENSOR_PIN) gave in the latest window
    \* ---- Forwarding Node ----
    pcF,            \* "setup" (waiting for WiFi) or "loop"
    wifi,           \* TRUE when WiFi.status() == WL_CONNECTED
    rx,             \* bytes waiting in the Serial receive buffer
    data,           \* char data1[30] .. data14[30]
    numParsed,      \* the latest sscanf result
    lastLine,       \* receivedBuffer of the latest loop iteration
    posted,         \* the JSON body POSTed in the latest iteration, <<>> if none
    sentBefore,     \* the JSON bodies POSTed in earlier iterations
    srcFields,      \* the 14 fields the encoder wrote for the frame delivered last, <<>> if none
    delivered,      \* number of lines put on the link so far
    sendLog         \* what the latest sendData call did

senseVars == <<pcS, attached, pending, pulseCount, prpm, now, startTime,
               Sensor1_Val, Sensor2_Val, Sensor3_Val, Sensor4_Val,
               Sensor5_Val, Sensor6_Val, Sensor7_Val, Sensor8_Val,
               RLY1_STATUS, RLY2_STATUS, RLY3_STATUS, pin, pinWrites, yar,
               espOut, edgesSince, edgesAtRead, used, discarded, prpmBefore,
               dhtFailed, rawCurrent>>

fwdVars == <<pcF, wifi, rx, data, numParsed, lastLine, posted, sentBefore,
             srcFields, delivered, sendLog>>

vars == <<senseVars, fwdVars>>

(***************************************************************************)
(* Bounds of the model.                                                    *)
(***************************************************************************)
MaxEdges == 2        \* rising edges between two resets of the counter
TickMs == 5000       \* granularity of the clock
MaxTicks == 2        \* the clock stops after this many ticks
MaxLines == 2        \* lines delivered to the Forwarding Node

(***************************************************************************)
(* Program constants.                                                      *)
(***************************************************************************)
MEASUREMENT_DURATION_MS == 10000
CURRENT_NORMAL == 230
VOLTAGE_NORMAL == 10000
DHT11_NORMAL == 30
FieldWidth == 29     \* %29[^&] and %29s
LineMax == 500       \* readBytesUntil('\n', receivedBuffer, 500)
NumFields == 14
JsonBufferSize == 300
HIGH == 1
LOW == 0

(***************************************************************************)
(* Machine arithmetic.                                                     *)
(***************************************************************************)
Int16(x) == ((x + 32768) % 65536) - 32768       \* value kept in a 16-bit int
UInt16(x) == x % 65536                          \* value kept in a 16-bit unsigned int
CDiv(a, b) == IF a >= 0 THEN a \div b ELSE -((-a) \div b)   \* C division, b > 0

\* (a - b) mod 2^32 >= d for unsigned long a, b and 0 < d < 2^32.  When a < b
\* the difference wraps to 2^32 - (b - a); 2^32 - d is compared in 16-bit limbs.
ElapsedAtLeast(a, b, d) ==
    IF a >= b THEN a - b >= d
    ELSE LET x == b - a
             hi == 65535 - ((d - 1) \div 65536)
             lo == 65535 - ((d - 1) % 65536)
         IN  (x \div 65536 < hi) \/ (x \div 65536 = hi /\ x % 65536 <= lo)

(***************************************************************************)
(* Text.                                                                   *)
(***************************************************************************)
Amp == "&"
NL == "\n"
Whitespace == {" ", "\t", "\n", "\r"}
DigitChars == <<"0", "1", "2", "3", "4", "5", "6", "7", "8", "9">>

RECURSIVE UToStr(_)
UToStr(n) == IF n < 10 THEN <<DigitChars[n + 1]>>
             ELSE UToStr(n \div 10) \o <<DigitChars[(n % 10) + 1]>>

\* sprintf(buf, "%d", u) with u an unsigned int: %d reads the 16 bits as an int.
FmtD(u) == LET s == Int16(u)
           IN  IF s < 0 THEN <<"-">> \o UToStr(-s) ELSE UToStr(s)

TAG == <<"A", "D", "U", "_", "T", "E", "X", "T">>
ON == <<"O", "N">>
OFF == <<"O", "F", "F">>
NOR == <<"N", "O", "R">>
BUZ == <<"B", "U", "Z">>
RSV == <<"R", "S", "V">>

RECURSIVE Join(_)
Join(fs) == IF Len(fs) = 0 THEN <<>>
            ELSE IF Len(fs) = 1 THEN fs[1]
            ELSE fs[1] \o <<Amp>> \o Join(Tail(fs))

(***************************************************************************)
(* Sensing Node: the pure steps of one measurement window.                 *)
(***************************************************************************)

\* Cal_RPM averaging also when the previous estimate is 0.
CalPrpmNoSeed(pc, p) ==
    IF pc = 0 THEN 0
    ELSE Int16(CDiv(Int16(p + Int16(pc * 3)), 2))

\* Cal_RPM without the special case for an empty window.
CalPrpmNoZero(pc, p) ==
    IF p = 0 THEN Int16(pc * 3)
    ELSE Int16(CDiv(Int16(p + Int16(pc * 3)), 2))

\* Cal_RPM: the new smoothed estimate from the raw count pc and the previous
\* estimate p, in int arithmetic.
CalPrpm(pc, p) ==
    IF pc = 0 THEN 0
    ELSE IF p = 0 THEN Int16(pc * 3)
    ELSE Int16(CDiv(Int16(p + Int16(pc * 3)), 2))

\* The same computation carried out in wider registers and cut to 16 bits
\* only when stored into prpm.
CalPrpmWide(pc, p) ==
    IF pc = 0 THEN 0
    ELSE IF p = 0 THEN Int16(pc * 3)
    ELSE Int16(CDiv(p + pc * 3, 2))

\* What Cal_RPM may store into prpm.  pulseCount * 3 and the sum overflow int
\* for large counts, which the language leaves undefined: the build either
\* wraps each operation or computes wide; without overflow the two agree.
CalPrpmOutcomes(pc, p) == {CalPrpm(pc, p), CalPrpmWide(pc, p)}

\* ReadSensor_values: the scaling of the two analog readings (raw is 0..1023).
\* raw / 3.4 and raw / 42.8 * 1000.0 are float computations truncated to
\* unsigned int; for every raw in 0..1023 they equal these integer quotients.
\* ReadSensor_values scaling every current reading, small ones too.
ScaleCurrentNoFloor(raw) == UInt16((raw * 10) \div 34)

ScaleCurrent(raw) == IF raw < 20 THEN 0 ELSE UInt16((raw * 10) \div 34)

ScaleVoltage(raw) ==
    LET v == UInt16((raw * 10000) \div 428)
    IN  IF v <= 1000 THEN 0 ELSE v

\* Inputs of a window: raw ADC readings and what the DHT library returns
\* (ok = FALSE when a reading is not-a-number).
RawCurrent == {15, 782, 786}
RawVoltage == {428, 429}
DhtReadings ==
    { [ok |-> FALSE, t |-> 0, h |-> 0, f |-> 0, hic |-> 0, hif |-> 0],
      [ok |-> TRUE, t |-> 30, h |-> 60, f |-> 86, hic |-> 32, hif |-> 89],
      [ok |-> TRUE, t |-> 31, h |-> 40, f |-> 87, hic |-> 30, hif |-> 87] }

\* DHT11_read with the early return clearing the value instead of keeping it.
DhtStoreCleared(ok, reading, old) == IF ok THEN UInt16(reading) ELSE 0

\* DHT11_read: a value is stored only when no reading is not-a-number;
\* otherwise the function returns early and the variable keeps its value.
DhtStore(ok, reading, old) == IF ok THEN UInt16(reading) ELSE old

\* One channel of RelayOperation with the comparison the other way round at
\* the bound (sample < bound for "normal").
RelayChannelAtBound(sample, bound, status, level) ==
    IF sample < bound
    THEN [status |-> 0, level |-> IF status = 1 THEN HIGH ELSE level,
          wrote |-> IF status = 1 THEN 1 ELSE 0]
    ELSE [status |-> 1, level |-> IF status = 0 THEN LOW ELSE level,
          wrote |-> IF status = 0 THEN 1 ELSE 0]

\* One channel of RelayOperation with digitalWrite outside the test of the
\* flag, so that the pin is driven in every evaluation.
RelayChannelAlwaysWrite(sample, bound, status, level) ==
    IF sample <= bound
    THEN [status |-> 0, level |-> HIGH, wrote |-> 1]
    ELSE [status |-> 1, level |-> LOW, wrote |-> 1]

\* One channel of RelayOperation: the new flag, the new pin level and the
\* number of digitalWrite calls made.
RelayChannel(sample, bound, status, level) ==
    IF sample <= bound
    THEN [status |-> 0, level |-> IF status = 1 THEN HIGH ELSE level,
          wrote |-> IF status = 1 THEN 1 ELSE 0]
    ELSE [status |-> 1, level |-> IF status = 0 THEN LOW ELSE level,
          wrote |-> IF status = 0 THEN 1 ELSE 0]

\* The status strings the other way round.
StatusTextSwapped(st) == IF st = 0 THEN ON ELSE OFF

StatusText(st) == IF st = 0 THEN OFF ELSE ON

\* The combined status of the commented-out block of loop(): "NOR" when only
\* channel 1 is on.
AggregateOld(old, r1, r2, r3) ==
    IF r1 = 1 /\ r2 = 0 /\ r3 = 0 THEN NOR
    ELSE IF r1 = 1 \/ r2 = 1 \/ r3 = 1 THEN BUZ
    ELSE old

\* The combined status written into yar; yar keeps its old content when
\* neither condition holds.
Aggregate(old, r1, r2, r3) ==
    IF r1 = 0 /\ r2 = 0 /\ r3 = 0 THEN NOR
    ELSE IF r1 = 1 \/ r2 = 1 \/ r3 = 1 THEN BUZ
    ELSE old

\* The 14 fields of a frame, in the order loop() concatenates them.
Fields(s1, s2, s3, s4, s5, s6, s7, s8, r1, r2, r3, agg) ==
    << TAG, FmtD(s1), FmtD(s2), FmtD(s3), FmtD(s4), FmtD(s5), FmtD(s6),
       FmtD(s7), FmtD(s8), StatusText(r1), StatusText(r2), StatusText(r3),
       agg, RSV >>

\* The strcpy/strcat chain with the "&" before the reserved field left out.
FrameNoLastAmp(fs) == Join(SubSeq(fs, 1, Len(fs) - 1)) \o fs[Len(fs)]

\* The strcpy/strcat chain of loop(): the fields joined by "&"; this is the
\* text handed to esp.print.
Frame(fs) == Join(fs)

(***************************************************************************)
(* Sensing Node: state machine.                                            *)
(***************************************************************************)
SenseInit ==
    /\ pcS = "loop"
    /\ attached = TRUE
    /\ pending = FALSE
    /\ pulseCount = 0
    /\ prpm = 0
    /\ now = 0
    /\ startTime = 0 + MEASUREMENT_DURATION_MS
    /\ Sensor1_Val = 0 /\ Sensor2_Val = 0 /\ Sensor3_Val = 0 /\ Sensor4_Val = 0
    /\ Sensor5_Val = 0 /\ Sensor6_Val = 0 /\ Sensor7_Val = 0 /\ Sensor8_Val = 0
    /\ RLY1_STATUS = 0 /\ RLY2_STATUS = 0 /\ RLY3_STATUS = 0
    /\ pin = <<HIGH, HIGH, HIGH>>
    /\ pinWrites = <<0, 0, 0>>
    /\ yar = <<>>
    /\ espOut = <<>>
    /\ edgesSince = 0 /\ edgesAtRead = 0 /\ used = 0 /\ discarded = 0
    /\ prpmBefore = 0
    /\ dhtFailed = FALSE
    /\ rawCurrent = 0

sensorVars == <<Sensor1_Val, Sensor2_Val, Sensor4_Val, Sensor5_Val,
                Sensor6_Val, Sensor7_Val, Sensor8_Val, dhtFailed, rawCurrent>>
relayVars == <<RLY1_STATUS, RLY2_STATUS, RLY3_STATUS, pin, pinWrites>>
outVars == <<yar, espOut>>

\* The interrupt controller hands an edge to countPulse only while the
\* handler is attached; here it does so always.
EdgeDeliveredAlways(att) == TRUE

\* The interrupt controller hands an edge to countPulse only while the
\* handler is attached (between attachInterrupt and detachInterrupt).
EdgeDelivered(att) == att

\* countPulse with a second increment.
CountPulseTwice(pc) == Int16(pc + 2)

\* countPulse: pulseCount++.
CountPulse(pc) == Int16(pc + 1)

\* A rising edge on the speed-sensor pin.  Attached: countPulse runs.
\* Detached: the edge is dropped, or latched in the controller's flag and
\* served when the handler is attached again (at most one is remembered).
Edge ==
    /\ edgesSince < MaxEdges
    /\ edgesSince' = edgesSince + 1
    /\ \/ /\ EdgeDelivered(attached)
          /\ pulseCount' = CountPulse(pulseCount)
          /\ UNCHANGED pending
       \/ /\ ~EdgeDelivered(attached)
          /\ UNCHANGED <<pulseCount, pending>>
       \/ /\ ~EdgeDelivered(attached)
          /\ pending' = TRUE
          /\ UNCHANGED pulseCount
    /\ UNCHANGED <<pcS, attached, prpm, now, startTime, Sensor3_Val, sensorVars,
                   relayVars, outVars, edgesAtRead, used, discarded,
                   prpmBefore>>

\* Time passes in the delay(10) calls of loop(); the steps of a window take
\* far less than one tick.
Tick ==
    /\ pcS = "loop"
    /\ now + TickMs <= MaxTicks * TickMs
    /\ now' = now + TickMs
    /\ UNCHANGED <<pcS, attached, pending, pulseCount, prpm, startTime,
                   Sensor3_Val, sensorVars, relayVars, outVars,
                   edgesSince, edgesAtRead, used, discarded, prpmBefore>>

\* loop(): the window test succeeds and Cal_RPM detaches the handler.
CalDetach ==
    /\ pcS = "loop"
    /\ ElapsedAtLeast(now, startTime, MEASUREMENT_DURATION_MS)
    /\ attached' = FALSE
    /\ pcS' = "detached"
    /\ UNCHANGED <<pending, pulseCount, prpm, now, startTime, Sensor3_Val,
                   sensorVars, relayVars, outVars,
                   edgesSince, edgesAtRead, used, discarded, prpmBefore>>

\* Cal_RPM: reads pulseCount and updates prpm and Sensor3_Val.
CalCompute ==
    /\ pcS = "detached"
    /\ used' = pulseCount
    /\ edgesAtRead' = edgesSince
    /\ prpmBefore' = prpm
    /\ prpm' \in CalPrpmOutcomes(pulseCount, prpm)
    /\ Sensor3_Val' = UInt16(prpm')
    /\ pcS' = "computed"
    /\ UNCHANGED <<attached, pending, pulseCount, now, startTime, sensorVars,
                   relayVars, outVars, edgesSince, discarded>>

\* Cal_RPM: pulseCount = 0.
CalReset ==
    /\ pcS = "computed"
    /\ discarded' = pulseCount
    /\ pulseCount' = 0
    /\ edgesSince' = 0
    /\ pcS' = "reset"
    /\ UNCHANGED <<attached, pending, prpm, now, startTime, Sensor3_Val,
                   sensorVars, relayVars, outVars, edgesAtRead, used,
                   prpmBefore>>

\* Cal_RPM: attachInterrupt; a latched edge is served at once.
CalAttach ==
    /\ pcS = "reset"
    /\ attached' = TRUE
    /\ pending' = FALSE
    /\ pulseCount' = IF pending THEN CountPulse(pulseCount) ELSE pulseCount
    /\ pcS' = "attached"
    /\ UNCHANGED <<prpm, now, startTime, Sensor3_Val, sensorVars, relayVars,
                   outVars, edgesSince, edgesAtRead, used, discarded,
                   prpmBefore>>

\* The rest of the window in loop(): ReadSensor_values (with DHT11_read),
\* RelayOperation, the sprintf calls, the strcat chain, esp.print and
\* startTime = millis().
Window ==
    /\ pcS = "attached"
    /\ \E rawI \in RawCurrent, rawV \in RawVoltage, d \in DhtReadings :
        LET s1 == ScaleCurrent(rawI)
            s2 == ScaleVoltage(rawV)
            s4 == DhtStore(d.ok, d.t, Sensor4_Val)
            s5 == DhtStore(d.ok, d.h, Sensor5_Val)
            s6 == DhtStore(d.ok, d.f, Sensor6_Val)
            s7 == DhtStore(d.ok, d.hic, Sensor7_Val)
            s8 == DhtStore(d.ok, d.hif, Sensor8_Val)
            c2 == RelayChannel(s2, VOLTAGE_NORMAL, RLY2_STATUS, pin[2])
            c1 == RelayChannel(s1, CURRENT_NORMAL, RLY1_STATUS, pin[1])
            c3 == RelayChannel(s4, DHT11_NORMAL, RLY3_STATUS, pin[3])
            agg == Aggregate(yar, c1.status, c2.status, c3.status)
        IN  /\ Sensor1_Val' = s1 /\ Sensor2_Val' = s2 /\ Sensor4_Val' = s4
            /\ Sensor5_Val' = s5 /\ Sensor6_Val' = s6 /\ Sensor7_Val' = s7
            /\ Sensor8_Val' = s8
            /\ dhtFailed' = ~d.ok
            /\ rawCurrent' = rawI
            /\ RLY1_STATUS' = c1.status
            /\ RLY2_STATUS' = c2.status
            /\ RLY3_STATUS' = c3.status
            /\ pin' = <<c1.level, c2.level, c3.level>>
            /\ pinWrites' = <<c1.wrote, c2.wrote, c3.wrote>>
            /\ yar' = agg
            /\ espOut' = Frame(Fields(s1, s2, Sensor3_Val, s4, s5, s6, s7, s8,
                                      c1.status, c2.status, c3.status, agg))
    /\ startTime' = now
    /\ pcS' = "loop"
    /\ edgesAtRead' = 0 /\ used' = 0 /\ discarded' = 0 /\ prpmBefore' = 0
    /\ UNCHANGED <<attached, pending, pulseCount, prpm, now, Sensor3_Val,
                   edgesSince>>

(***************************************************************************)
(* Forwarding Node: reading a line, sscanf, the JSON body.                 *)
(***************************************************************************)

\* Index of the first '\n' among buf[i..n], 0 if there is none.
FirstNL(buf, i, n) ==
    LET at == {k \in i..n : buf[k] = NL}
    IN  IF at = {} THEN 0 ELSE CHOOSE k \in at : \A m \in at : k <= m

Min(a, b) == IF a <= b THEN a ELSE b

\* Serial.readBytesUntil without the limit of 500 characters.
ReadBytesUntilNoLimit(buf) ==
    LET j == FirstNL(buf, 1, Len(buf))
    IN  IF j > 0
        THEN [line |-> SubSeq(buf, 1, j - 1), rest |-> SubSeq(buf, j + 1, Len(buf))]
        ELSE [line |-> buf, rest |-> <<>>]

\* Serial.readBytesUntil('\n', receivedBuffer, 500): the bytes before the
\* first '\n' (which is consumed), at most 500 of them; without a '\n' the
\* call times out and returns what has arrived.
ReadBytesUntil(buf) ==
    LET n == Min(Len(buf), LineMax)
        j == FirstNL(buf, 1, n)
    IN  IF j > 0
        THEN [line |-> SubSeq(buf, 1, j - 1), rest |-> SubSeq(buf, j + 1, Len(buf))]
        ELSE [line |-> SubSeq(buf, 1, n), rest |-> SubSeq(buf, n + 1, Len(buf))]

\* %29[^&]: how many characters from position i on are taken (k so far).
RECURSIVE ScanNotAmp(_, _, _)
ScanNotAmp(s, i, k) ==
    IF k < FieldWidth /\ i + k <= Len(s) /\ s[i + k] # Amp
    THEN ScanNotAmp(s, i, k + 1)
    ELSE k

\* %29s: leading white space is skipped ...
RECURSIVE SkipSpace(_, _)
SkipSpace(s, i) ==
    IF i <= Len(s) /\ s[i] \in Whitespace THEN SkipSpace(s, i + 1) ELSE i

\* ... and up to 29 characters that are not white space are taken.
RECURSIVE ScanWord(_, _, _)
ScanWord(s, i, k) ==
    IF k < FieldWidth /\ i + k <= Len(s) /\ s[i + k] \notin Whitespace
    THEN ScanWord(s, i, k + 1)
    ELSE k

\* sscanf from directive f on, reading s from position i, d the buffers so
\* far.  A directive that matches nothing ends the scan; buffers of the
\* directives not reached keep their content.  The result is the number of
\* buffers assigned, or EOF (-1) when the input ends before the first one.
RECURSIVE ScanFrom(_, _, _, _)
ScanFrom(s, i, f, d) ==
    IF f < NumFields
    THEN LET k == ScanNotAmp(s, i, 0)
         IN  IF k = 0
             THEN [n |-> IF f = 1 /\ i > Len(s) THEN -1 ELSE f - 1, data |-> d]
             ELSE LET d2 == [d EXCEPT ![f] = SubSeq(s, i, i + k - 1)]
                  IN  IF i + k <= Len(s) /\ s[i + k] = Amp
                      THEN ScanFrom(s, i + k + 1, f + 1, d2)
                      ELSE [n |-> f, data |-> d2]
    ELSE LET j == SkipSpace(s, i)
             k == ScanWord(s, j, 0)
         IN  IF k = 0
             THEN [n |-> f - 1, data |-> d]
             ELSE [n |-> f, data |-> [d EXCEPT ![f] = SubSeq(s, j, j + k - 1)]]

\* The scan with a format that lacks its first directive: what is read goes
\* into data2 onwards.
SscanfShifted(s, d) == ScanFrom(s, 1, 2, d)

\* sscanf(receivedBuffer, "%29[^&]&...&%29[^&]&%29s", data1, ..., data14).
Sscanf(s, d) == ScanFrom(s, 1, 1, d)

Quote == "\""

KeyName(k) == IF k = 0 THEN <<"T", "Y", "P", "E">> ELSE <<"V", "A", "L">> \o UToStr(k)

RECURSIVE JsonPairs(_, _)
JsonPairs(d, k) ==
    LET pair == <<Quote>> \o KeyName(k) \o <<Quote, ":", " ", Quote>> \o d[k + 1] \o <<Quote>>
    IN  IF k = 12 THEN pair
        ELSE pair \o <<",", " ">> \o JsonPairs(d, k + 1)

\* The sprintf of sendData with the arguments one place on: TYPE from data2.
JsonShifted(d) == <<"{">> \o JsonPairs(Tail(d) \o <<d[1]>>, 0) \o <<"}">>

\* The sprintf of sendData: TYPE from data1, VAL1..VAL12 from data2..data13.
Json(d) == <<"{">> \o JsonPairs(d, 0) \o <<"}">>

(***************************************************************************)
(* Forwarding Node: state machine.                                         *)
(***************************************************************************)
EmptyData == [i \in 1..NumFields |-> <<>>]

\* sendData has not been called yet.
NoSend == [calls |-> 0, connected |-> FALSE, opened |-> FALSE, posts |-> 0,
           begins |-> 0, formatted |-> 0]

FwdInit ==
    /\ pcF = "setup"
    /\ wifi = FALSE
    /\ rx = <<>>
    /\ data = EmptyData
    /\ numParsed = 0
    /\ lastLine = <<>>
    /\ posted = <<>>
    /\ sentBefore = {}
    /\ srcFields = <<>>
    /\ delivered = 0
    /\ sendLog = NoSend

\* The access point comes or goes.
WifiChange ==
    /\ wifi' = ~wifi
    /\ UNCHANGED <<pcF, rx, data, numParsed, lastLine, posted, sentBefore,
                   srcFields, delivered, sendLog>>

\* setup(): the while loop ends once WiFi.status() is WL_CONNECTED.
FwdSetup ==
    /\ pcF = "setup"
    /\ wifi
    /\ pcF' = "loop"
    /\ UNCHANGED <<wifi, rx, data, numParsed, lastLine, posted, sentBefore,
                   srcFields, delivered, sendLog>>

\* sendData(): the body is POSTed when WiFi is connected and http.begin
\* succeeds (beginOk); otherwise nothing is sent.
SendData(d, connected, beginOk) ==
    IF connected /\ beginOk THEN Json(d) ELSE <<>>

\* sendData() calling WiFi.begin twice when the association is lost.
WifiBeginCallsTwice(connected) == IF connected THEN 0 ELSE 2

\* sendData(): the number of WiFi.begin calls, one in the else branch.
WifiBeginCalls(connected) == IF connected THEN 0 ELSE 1

\* sendData(): the number of http.POST calls.
PostCalls(connected, beginOk) == IF connected /\ beginOk THEN 1 ELSE 0

\* sendData(): the number of characters sprintf writes into jsonBuffer, the
\* terminating 0 not counted; none when the sprintf is not reached.
Formatted(d, connected, beginOk) ==
    IF connected /\ beginOk THEN Len(Json(d)) ELSE 0

\* sendData(): whether the call returns (TRUE) or the node resets (FALSE).
\* A body that does not fit jsonBuffer[300] is written past its end, over
\* the rest of the stack frame: the build either gets away with it and
\* POSTs the body, or takes an exception and restarts.
Returns(d, connected, beginOk) ==
    IF Formatted(d, connected, beginOk) + 1 > JsonBufferSize
    THEN BOOLEAN ELSE {TRUE}

\* One iteration of loop() with Serial.available() > 0: read a line, sscanf
\* it into data1..data14, call sendData.
FwdLoop ==
    /\ pcF = "loop"
    /\ Len(rx) > 0
    /\ \E beginOk \in BOOLEAN :
        LET r == ReadBytesUntil(rx)
            sc == Sscanf(r.line, data)
        IN  \E returns \in Returns(sc.data, wifi, beginOk) :
            /\ lastLine' = r.line
            /\ sentBefore' = IF posted # <<>> THEN sentBefore \cup {posted}
                             ELSE sentBefore
            /\ IF returns
               THEN /\ rx' = r.rest
                    /\ data' = sc.data
                    /\ numParsed' = sc.n
                    /\ posted' = SendData(sc.data, wifi, beginOk)
                    /\ sendLog' = [calls |-> 1, connected |-> wifi,
                                   opened |-> wifi /\ beginOk,
                                   posts |-> PostCalls(wifi, beginOk),
                                   begins |-> WifiBeginCalls(wifi),
                                   formatted |->
                                       Formatted(sc.data, wifi, beginOk)]
                    /\ UNCHANGED <<pcF, wifi>>
               ELSE /\ rx' = <<>>
                    /\ data' = EmptyData
                    /\ numParsed' = 0
                    /\ posted' = <<>>
                    /\ sendLog' = [calls |-> 1, connected |-> wifi,
                                   opened |-> wifi /\ beginOk,
                                   posts |-> 0, begins |-> 0,
                                   formatted |->
                                       Formatted(sc.data, wifi, beginOk)]
                    /\ pcF' = "setup"
                    /\ wifi' = FALSE
    /\ UNCHANGED <<srcFields, delivered>>

(***************************************************************************)
(* Lines put on the link.                                                  *)
(***************************************************************************)
\* Sample values s1..s8 and flags r1..r3 of the frames delivered.
LinkSamples ==
    { <<10, 200, 1500, 25, 60, 77, 26, 79, 0, 1, 0>>,
      <<231, 10023, 9, 31, 40, 87, 30, 87, 1, 1, 1>> }

SampleFields(v) ==
    Fields(v[1], v[2], v[3], v[4], v[5], v[6], v[7], v[8], v[9], v[10], v[11],
           Aggregate(<<>>, v[9], v[10], v[11]))

\* Aggregate-status tokens of a sender that follows the frame contract.
NORMAL == <<"N", "O", "R", "M", "A", "L">>
ALERT == <<"A", "L", "E", "R", "T">>

LongField == [i \in 1..(FieldWidth + 1) |-> "7"]
FullField == [i \in 1..FieldWidth |-> "7"]

\* A line of 502 characters: thirteen fields of 29 characters and a last
\* one of 112.
HugeLine ==
    Join([i \in 1..(NumFields - 1) |-> FullField]) \o <<Amp>>
        \o [i \in 1..(LineMax + 2 - (NumFields - 1) * (FieldWidth + 1)) |-> "7"]
OtherTag == <<"P", "L", "C", "_", "T", "E", "X", "T">>

LineKinds ==
    {"frame", "alert", "missing", "extra", "long", "tag", "empty", "huge"}

\* A line of the given kind made from the fields fs.
MakeLine(kind, fs) ==
    CASE kind = "frame"   -> Frame(fs)
      [] kind = "alert"   -> Join([fs EXCEPT ![13] = ALERT])
      [] kind = "missing" -> Join(SubSeq(fs, 1, NumFields - 1))
      [] kind = "extra"   -> Join(<<fs[1], fs[2], <<>>>> \o SubSeq(fs, 3, NumFields))
      [] kind = "long"    -> Join([fs EXCEPT ![3] = LongField])
      [] kind = "tag"     -> Join([fs EXCEPT ![1] = OtherTag])
      [] kind = "empty"   -> <<>>
      [] kind = "huge"    -> HugeLine

\* A line arrives on the link, with or without a '\n' after it, while the
\* receive buffer is empty.
Deliver ==
    /\ delivered < MaxLines
    /\ rx = <<>>
    /\ \E v \in LinkSamples, kind \in LineKinds, nl \in BOOLEAN :
        /\ kind = "empty" => nl
        /\ rx' = MakeLine(kind, SampleFields(v)) \o (IF nl THEN <<NL>> ELSE <<>>)
        /\ srcFields' = IF kind = "frame" THEN SampleFields(v) ELSE <<>>
    /\ delivered' = delivered + 1
    /\ UNCHANGED <<pcF, wifi, data, numParsed, lastLine, posted, sentBefore,
                   sendLog>>

\* Values for the round trip: one field takes each of these, the others a
\* common value.
WideValues == {0, 9, 10, 255, 1023, 23901, 32767, 32768, 40000, 65535}
CommonValues == {0, 65535}

\* The encoder's frame for chosen values goes onto the link, once.
DeliverEncoded ==
    /\ delivered = 0
    /\ rx = <<>>
    /\ \E p \in 1..8, x \in WideValues, c \in CommonValues,
          r1 \in {0, 1}, r2 \in {0, 1}, r3 \in {0, 1} :
        LET val(i) == IF i = p THEN x ELSE c
            fs == Fields(val(1), val(2), val(3), val(4), val(5), val(6), val(7),
                         val(8), r1, r2, r3, Aggregate(<<>>, r1, r2, r3))
        IN  /\ rx' = Frame(fs)
            /\ srcFields' = fs
    /\ delivered' = delivered + 1
    /\ UNCHANGED <<pcF, wifi, data, numParsed, lastLine, posted, sentBefore,
                   sendLog>>

(***************************************************************************)
(* Specifications.                                                         *)
(***************************************************************************)
Init == SenseInit /\ FwdInit

\* The Sensing Node with its interrupt source.
Next ==
    \/ Edge /\ UNCHANGED fwdVars
    \/ Tick /\ UNCHANGED fwdVars
    \/ CalDetach /\ UNCHANGED fwdVars
    \/ CalCompute /\ UNCHANGED fwdVars
    \/ CalReset /\ UNCHANGED fwdVars
    \/ CalAttach /\ UNCHANGED fwdVars
    \/ Window /\ UNCHANGED fwdVars

Spec == Init /\ [][Next]_vars

\* The Forwarding Node with lines arriving on the link.
FwdNext ==
    \/ WifiChange /\ UNCHANGED senseVars
    \/ FwdSetup /\ UNCHANGED senseVars
    \/ Deliver /\ UNCHANGED senseVars
    \/ FwdLoop /\ UNCHANGED senseVars

FwdSpec == Init /\ [][FwdNext]_vars

\* The same, with the processor never stopping in setup(): the while loop
\* polls WiFi.status() every 500 ms and ends once it stays WL_CONNECTED.
\* Nothing is assumed of the access point or of the link.
FwdLiveSpec ==
    /\ Init
    /\ [][FwdNext]_vars
    /\ WF_vars(FwdSetup /\ UNCHANGED senseVars)

\* Encoder and decoder back to back: the buffers start empty or filled by an
\* earlier line, one encoded frame is delivered and decoded.
UsedData == [i \in 1..NumFields |-> <<"z", "z">>]

CodecInit ==
    /\ SenseInit
    /\ pcF = "setup" /\ wifi = FALSE /\ rx = <<>>
    /\ data \in {EmptyData, UsedData}
    /\ numParsed = 0 /\ lastLine = <<>> /\ posted = <<>> /\ sentBefore = {}
    /\ srcFields = <<>> /\ delivered = 0 /\ sendLog = NoSend

CodecNext ==
    \/ WifiChange /\ UNCHANGED senseVars
    \/ FwdSetup /\ UNCHANGED senseVars
    \/ DeliverEncoded /\ UNCHANGED senseVars
    \/ FwdLoop /\ UNCHANGED senseVars

CodecSpec == CodecInit /\ [][CodecNext]_vars

\* Cal_RPM on its own: loop() has just entered it with the handler detached,
\* some count collected in the window and some estimate left by the windows
\* before (0, or three times a count, or an average of such values).
CountSamples == {0, 1, 2, 500, 10000, 10922, 10923, 20000, 32767}
PrpmSamples == {0, 3, 1500, 30000, 32766}

RpmInit ==
    /\ pcS = "detached"
    /\ attached = FALSE
    /\ pending \in BOOLEAN
    /\ pulseCount \in CountSamples
    /\ prpm \in PrpmSamples
    /\ now = MEASUREMENT_DURATION_MS
    /\ startTime = 0
    /\ Sensor1_Val = 0 /\ Sensor2_Val = 0 /\ Sensor3_Val = UInt16(prpm)
    /\ Sensor4_Val = 0 /\ Sensor5_Val = 0 /\ Sensor6_Val = 0
    /\ Sensor7_Val = 0 /\ Sensor8_Val = 0
    /\ RLY1_STATUS = 0 /\ RLY2_STATUS = 0 /\ RLY3_STATUS = 0
    /\ pin = <<HIGH, HIGH, HIGH>>
    /\ pinWrites = <<0, 0, 0>>
    /\ yar = NOR
    /\ espOut = <<>>
    /\ edgesSince = 0 /\ edgesAtRead = 0 /\ used = 0 /\ discarded = 0
    /\ prpmBefore = 0
    /\ dhtFailed = FALSE
    /\ rawCurrent = 0
    /\ FwdInit

RpmNext ==
    \/ CalCompute /\ UNCHANGED fwdVars
    \/ CalReset /\ UNCHANGED fwdVars
    \/ CalAttach /\ UNCHANGED fwdVars

RpmSpec == RpmInit /\ [][RpmNext]_vars

\* Cal_RPM followed by the rest of the window, which encodes the frame.
EncNext ==
    \/ CalCompute /\ UNCHANGED fwdVars
    \/ CalReset /\ UNCHANGED fwdVars
    \/ CalAttach /\ UNCHANGED fwdVars
    \/ Window /\ UNCHANGED fwdVars

EncSpec == RpmInit /\ [][EncNext]_vars

\* A link on which the sender waits until the receiver has taken the frame
\* before.
LinkAcceptsWhenEmpty(buf) == buf = <<>>

\* esp.print(str) on the SoftwareSerial port: the bytes are clocked out on
\* the TX pin whatever the receiver does; there is no handshake line.
LinkAccepts(buf) == TRUE

\* The rest of the window with the frame going over the wire into the
\* Forwarding Node's receive buffer.
WindowToLink ==
    /\ LinkAccepts(rx)
    /\ Window
    /\ rx' = rx \o espOut'
    /\ UNCHANGED <<pcF, wifi, data, numParsed, lastLine, posted, sentBefore,
                   srcFields, delivered, sendLog>>

\* Time passing in the delay(10) of loop() iterations whose window test
\* fails: an iteration whose test succeeds evaluates the window first.
LoopDelay ==
    /\ ~ElapsedAtLeast(now, startTime, MEASUREMENT_DURATION_MS)
    /\ Tick

\* Both nodes, wired together, with the access point coming and going.
SysNext ==
    \/ LoopDelay /\ UNCHANGED fwdVars
    \/ CalDetach /\ UNCHANGED fwdVars
    \/ CalCompute /\ UNCHANGED fwdVars
    \/ CalReset /\ UNCHANGED fwdVars
    \/ CalAttach /\ UNCHANGED fwdVars
    \/ WindowToLink
    \/ WifiChange /\ UNCHANGED senseVars
    \/ FwdSetup /\ UNCHANGED senseVars
    \/ FwdLoop /\ UNCHANGED senseVars

SysSpec == Init /\ [][SysNext]_vars

\* The same with the Sensing Node's processor never stopping: each step of
\* its loop() is taken once it can be.  Nothing is assumed of the
\* Forwarding Node, which may stay in setup() or never run again, nor of
\* the access point.
SysLiveSpec ==
    /\ Init
    /\ [][SysNext]_vars
    /\ WF_vars(CalDetach /\ UNCHANGED fwdVars)
    /\ WF_vars(CalCompute /\ UNCHANGED fwdVars)
    /\ WF_vars(CalReset /\ UNCHANGED fwdVars)
    /\ WF_vars(CalAttach /\ UNCHANGED fwdVars)
    /\ WF_vars(WindowToLink)

(***************************************************************************)
(* Reading a frame back, independently of sscanf.                          *)
(***************************************************************************)
CountAmp(s) == Cardinality({i \in 1..Len(s) : s[i] = Amp})

\* Index of the first delimiter among s[i..Len(s)], 0 if there is none.
FirstAmp(s, i) ==
    LET at == {k \in i..Len(s) : s[k] = Amp}
    IN  IF at = {} THEN 0 ELSE CHOOSE k \in at : \A m \in at : k <= m

RECURSIVE Split(_)
Split(s) ==
    LET j == FirstAmp(s, 1)
    IN  IF j = 0 THEN <<s>>
        ELSE <<SubSeq(s, 1, j - 1)>> \o Split(SubSeq(s, j + 1, Len(s)))

IsDigits(f) == Len(f) >= 1 /\ \A i \in 1..Len(f) : \E k \in 1..10 : f[i] = DigitChars[k]
IsNumber(f) == Len(f) >= 1 /\ IsDigits(IF f[1] = "-" THEN Tail(f) ELSE f)

AllOff == RLY1_STATUS = 0 /\ RLY2_STATUS = 0 /\ RLY3_STATUS = 0

\* The fields loop() writes for the current sample and flags.
CurrentFields ==
    Fields(Sensor1_Val, Sensor2_Val, Sensor3_Val, Sensor4_Val, Sensor5_Val,
           Sensor6_Val, Sensor7_Val, Sensor8_Val,
           RLY1_STATUS, RLY2_STATUS, RLY3_STATUS, yar)

\* A line that the frame format does not allow: fewer than 14 fields, more
\* than 13 delimiters, or a field of more than 29 characters.
Malformed(line) ==
    LET fs == Split(line)
    IN  \/ Len(fs) < NumFields
        \/ CountAmp(line) > NumFields - 1
        \/ \E i \in 1..Len(fs) : Len(fs[i]) > FieldWidth

(***************************************************************************)
(* Properties of the Sensing Node (specification Spec).                    *)
(***************************************************************************)

\* C1: the pulse count Cal_RPM uses at a window boundary equals the number
\* of rising edges that occurred since the previous reset of the counter,
\* edges arriving while the handler is detached included.
C1_CountIsExact == pcS = "computed" => used = edgesAtRead

\* C2: after every RelayOperation, and from startup on, each channel's flag
\* is ON exactly when its latest sample is strictly above its bound (230,
\* 10000, 30), and its pin is LOW exactly when the flag is ON.
C2_RelayFollowsSample ==
    /\ RLY1_STATUS = (IF Sensor1_Val > CURRENT_NORMAL THEN 1 ELSE 0)
    /\ RLY2_STATUS = (IF Sensor2_Val > VOLTAGE_NORMAL THEN 1 ELSE 0)
    /\ RLY3_STATUS = (IF Sensor4_Val > DHT11_NORMAL THEN 1 ELSE 0)
    /\ pin[1] = (IF RLY1_STATUS = 1 THEN LOW ELSE HIGH)
    /\ pin[2] = (IF RLY2_STATUS = 1 THEN LOW ELSE HIGH)
    /\ pin[3] = (IF RLY3_STATUS = 1 THEN LOW ELSE HIGH)

\* A window after which channel 1 is on and channel 2 has just been switched
\* off again.
C2_Witness ==
    /\ espOut # <<>>
    /\ RLY1_STATUS = 1 /\ pin[1] = LOW
    /\ RLY2_STATUS = 0 /\ pin[2] = HIGH /\ pinWrites[2] = 1
    /\ Sensor2_Val = VOLTAGE_NORMAL

\* C7: every frame written has exactly 13 '&' separating exactly 14 fields in
\* the order tag "ADU_TEXT", 8 numbers, 3 relay states, the combined status,
\* "RSV"; splitting at '&' gives back the fields as written, so no field
\* contains the delimiter.
C7_FrameLayout ==
    espOut # <<>> =>
        LET fs == Split(espOut)
        IN  /\ CountAmp(espOut) = NumFields - 1
            /\ Len(fs) = NumFields
            /\ fs[1] = TAG
            /\ \A i \in 2..9 : IsNumber(fs[i])
            /\ \A i \in 10..12 : fs[i] \in {ON, OFF}
            /\ fs[13] \in {NOR, BUZ}
            /\ fs[14] = RSV
            /\ pcS = "loop" => fs = CurrentFields

\* A frame has been written in a window where the voltage channel is on.
C7_Witness ==
    /\ espOut # <<>> /\ pcS = "loop"
    /\ RLY2_STATUS = 1 /\ Split(espOut)[11] = ON /\ Sensor1_Val = CURRENT_NORMAL

\* C8: the bytes written to the link for a window end with '\n'.
C8_NewlineTerminated == espOut # <<>> => espOut[Len(espOut)] = NL

C10_UsedIsDiscarded ==
    /\ pcS = "computed" => pulseCount = used
    /\ pcS \in {"reset", "attached"} => discarded = used

\* An edge arrived between the read and the reset of a non-zero count.
C10_Witness ==
    /\ pcS = "computed"
    /\ used >= 1
    /\ edgesSince > edgesAtRead
    /\ pulseCount = used

(***************************************************************************)
(* Properties of the Forwarding Node (specifications FwdSpec, CodecSpec).  *)
(***************************************************************************)

\* C3: a line with a missing field, an extra delimiter or an over-long
\* field is rejected: no POST is issued for it.
C3_MalformedRejected == Malformed(lastLine) => posted = <<>>

\* C4: a line whose first field is not "ADU_TEXT" is discarded: no POST is
\* issued for it.
C4_TagChecked == Split(lastLine)[1] # TAG => posted = <<>>

\* C5: a body that was POSTed before is POSTed again only if the line just
\* read carries those values itself; no other line (an empty one, one that
\* does not parse) makes the node send them again.
C5_AtMostOnce ==
    (posted # <<>> /\ posted \in sentBefore) =>
        Json(Sscanf(lastLine, EmptyData).data) = posted

\* C6: the frame the encoder builds, read by the decoder, gives 14 fields,
\* each equal to the field the encoder wrote at that position.
C6_RoundTrip ==
    (srcFields # <<>> /\ rx = <<>> /\ lastLine = Frame(srcFields)) =>
        /\ numParsed = NumFields
        /\ \A i \in 1..NumFields : data[i] = srcFields[i]

\* A frame whose first number is 65535 (written "-1") and whose sixth number
\* is 40000 has been decoded.
C6_Witness ==
    /\ srcFields # <<>> /\ rx = <<>> /\ lastLine = Frame(srcFields)
    /\ numParsed = NumFields
    /\ data[2] = <<"-", "1">>
    /\ data[7] = FmtD(40000)
    /\ data[14] = RSV

(***************************************************************************)
(* Further claims about the Forwarding Node (FwdSpec).                     *)
(***************************************************************************)

\* A word a field may hold: 1 to 29 characters, none of them white space or
\* a quotation mark.
IsWord(f) ==
    /\ Len(f) \in 1..FieldWidth
    /\ \A i \in 1..Len(f) : f[i] \notin Whitespace \cup {Quote}

\* A line in the frame layout: a type tag, eight numbers of at most five
\* digits, three relay-status tokens, an aggregate-status token and the
\* reserved token, separated by thirteen delimiters.
WellFormed(line) ==
    LET fs == Split(line)
    IN  /\ Len(fs) = NumFields
        /\ IsWord(fs[1])
        /\ \A i \in 2..9 : IsDigits(fs[i]) /\ Len(fs[i]) <= 5
        /\ \A i \in 10..12 : fs[i] \in {ON, OFF}
        /\ fs[13] \in {NOR, BUZ, NORMAL, ALERT}
        /\ fs[14] = RSV

\* The 13 keys of the payload, in the order of the fields they carry.
PayloadKeys ==
    <<<<"T", "Y", "P", "E">>,
      <<"V", "A", "L", "1">>, <<"V", "A", "L", "2">>, <<"V", "A", "L", "3">>,
      <<"V", "A", "L", "4">>, <<"V", "A", "L", "5">>, <<"V", "A", "L", "6">>,
      <<"V", "A", "L", "7">>, <<"V", "A", "L", "8">>, <<"V", "A", "L", "9">>,
      <<"V", "A", "L", "1", "0">>, <<"V", "A", "L", "1", "1">>,
      <<"V", "A", "L", "1", "2">>>>

\* "key": "value"
Member(key, val) ==
    <<Quote>> \o key \o <<Quote, ":", " ", Quote>> \o val \o <<Quote>>

RECURSIVE Members(_, _)
Members(fs, k) ==
    IF k = Len(PayloadKeys) THEN Member(PayloadKeys[k], fs[k])
    ELSE Member(PayloadKeys[k], fs[k]) \o <<",", " ">> \o Members(fs, k + 1)

\* The JSON object with key k carrying field k of fs as a string.
Payload(fs) == <<"{">> \o Members(fs, 1) \o <<"}">>

\* C14: for a well-formed 14-field line read while WiFi is associated and
\* the HTTP connection opens, the node issues exactly one POST, and its body
\* is the JSON object with exactly the 13 keys TYPE, VAL1..VAL12, TYPE
\* carrying field 1 and VALk field k+1, every value a string.
C14_OnePostPositional ==
    (/\ sendLog.calls = 1 /\ sendLog.connected /\ sendLog.opened
     /\ WellFormed(lastLine))
        => sendLog.posts = 1 /\ posted = Payload(Split(lastLine))

\* The line ADU_TEXT&10&200&1500&25&60&77&26&79&OFF&ON&OFF&ALERT&RSV has
\* been read with WiFi up and POSTed: TYPE is "ADU_TEXT", VAL1 "10", VAL12
\* "ALERT".
C14_Witness ==
    /\ lastLine = Join(<<TAG, <<"1", "0">>, <<"2", "0", "0">>,
                         <<"1", "5", "0", "0">>, <<"2", "5">>, <<"6", "0">>,
                         <<"7", "7">>, <<"2", "6">>, <<"7", "9">>,
                         OFF, ON, OFF, ALERT, RSV>>)
    /\ sendLog.connected /\ sendLog.opened /\ sendLog.posts = 1
    /\ SubSeq(posted, 1, 34) =
         <<"{", Quote, "T", "Y", "P", "E", Quote, ":", " ", Quote, "A", "D", "U", "_", "T", "E", "X", "T", Quote, ",", " ", Quote, "V", "A", "L", "1", Quote, ":", " ", Quote, "1", "0", Quote, ",">>
    /\ SubSeq(posted, Len(posted) - 16, Len(posted)) =
         <<Quote, "V", "A", "L", "1", "2", Quote, ":", " ", Quote, "A", "L", "E", "R", "T", Quote, "}">>

\* C15: when sendData is called while the WiFi association is lost, it calls
\* WiFi.begin exactly once, issues no POST and returns to loop() at once;
\* the line it was called for is gone from the receive buffer and is not
\* put back.
C15_OneReconnectNoPost ==
    [][(pcF = "loop" /\ rx # <<>> /\ rx' # rx /\ ~wifi) =>
        /\ sendLog'.calls = 1
        /\ sendLog'.begins = 1
        /\ sendLog'.posts = 0 /\ posted' = <<>>
        /\ pcF' = "loop" /\ wifi' = wifi
        /\ Len(rx') < Len(rx)
        /\ Len(rx') <= Len(rx) - Len(lastLine')
        /\ rx' = SubSeq(rx, Len(rx) - Len(rx') + 1, Len(rx))]_vars

\* sendData has run for a frame while the association was lost, and the
\* receive buffer is empty afterwards although the association is still
\* lost.
C15_Witness ==
    /\ sendLog.calls = 1 /\ ~sendLog.connected /\ ~wifi
    /\ sendLog.begins = 1 /\ posted = <<>>
    /\ WellFormed(lastLine) /\ rx = <<>> /\ pcF = "loop"

\* C16: every network wait of the node is bounded: in every execution, also
\* one in which the WiFi association never succeeds, the startup wait ends
\* and the node reaches the point of loop() where it reads the next line.
C16_ReachesLoop == <>(pcF = "loop")

(***************************************************************************)
(* Further claims about the Sensing Node (Spec).                           *)
(***************************************************************************)

\* A step of the window that runs RelayOperation.
RelayStep == pcS = "attached" /\ pcS' = "loop"

\* The digitalWrite calls a flag going from a to b stands for.
WritesFor(a, b) == IF a # b THEN 1 ELSE 0

\* C13: RelayOperation writes a channel's pin in an evaluation if and only if
\* the channel's flag differs before and after it (a pin that is not written
\* keeps its level), and an evaluation whose three samples equal those of
\* the evaluation before performs no pin write at all.
C13_WriteIffFlagChanges ==
    [][RelayStep =>
        /\ pinWrites' = <<WritesFor(RLY1_STATUS, RLY1_STATUS'),
                           WritesFor(RLY2_STATUS, RLY2_STATUS'),
                           WritesFor(RLY3_STATUS, RLY3_STATUS')>>
        /\ \A i \in 1..3 : pinWrites'[i] = 0 => pin'[i] = pin[i]
        /\ (/\ Sensor1_Val' = Sensor1_Val
            /\ Sensor2_Val' = Sensor2_Val
            /\ Sensor4_Val' = Sensor4_Val) => pinWrites' = <<0, 0, 0>>]_vars

\* A second evaluation has found the current above its bound as the first
\* did (the flag was ON already) and has written no pin.
C13_Witness ==
    /\ pcS = "loop" /\ espOut # <<>> /\ now >= MEASUREMENT_DURATION_MS
    /\ RLY1_STATUS = 1 /\ pin[1] = LOW
    /\ pinWrites = <<0, 0, 0>>

\* C17: when the DHT read of a window fails, the five environmental values
\* keep what they held before the window, the temperature relay is still
\* evaluated, against the retained temperature, and the window still emits
\* a frame, which carries the retained values.
C17_FailedReadRetains ==
    [][(RelayStep /\ dhtFailed') =>
        /\ <<Sensor4_Val', Sensor5_Val', Sensor6_Val', Sensor7_Val',
              Sensor8_Val'>> =
           <<Sensor4_Val, Sensor5_Val, Sensor6_Val, Sensor7_Val, Sensor8_Val>>
        /\ RLY3_STATUS' = (IF Sensor4_Val > DHT11_NORMAL THEN 1 ELSE 0)
        /\ pin'[3] = (IF Sensor4_Val > DHT11_NORMAL THEN LOW ELSE HIGH)
        /\ Len(Split(espOut')) = NumFields
        /\ SubSeq(Split(espOut'), 5, 9) =
           <<FmtD(Sensor4_Val), FmtD(Sensor5_Val), FmtD(Sensor6_Val),
             FmtD(Sensor7_Val), FmtD(Sensor8_Val)>>
        /\ Split(espOut')[12] = StatusText(RLY3_STATUS')]_vars

\* A window after one that read 31 degrees has failed to read the sensor:
\* the temperature is still 31, its relay is ON and the frame says 31.
C17_Witness ==
    /\ pcS = "loop" /\ dhtFailed
    /\ Sensor4_Val = 31 /\ Sensor5_Val = 40 /\ RLY3_STATUS = 1
    /\ Split(espOut)[5] = <<"3", "1">>
    /\ Split(espOut)[12] = ON

\* A step in which countPulse runs: an edge arrives while the handler is
\* attached, or attachInterrupt serves the edge latched while it was not.
HandlerRuns ==
    \/ edgesSince' = edgesSince + 1 /\ attached
    \/ pcS = "reset" /\ pcS' = "attached" /\ pending

\* C19: an invocation of countPulse, wherever it falls in the main loop,
\* adds exactly 1 to the pulse counter and changes nothing else: not the
\* sample, the smoothed estimate, the relay flags and pins, the window start
\* time or the frame buffers.
C19_HandlerOnlyCounts ==
    [][HandlerRuns =>
        /\ pulseCount' = pulseCount + 1
        /\ UNCHANGED <<prpm, startTime, now, Sensor3_Val, sensorVars,
                       RLY1_STATUS, RLY2_STATUS, RLY3_STATUS, pin, pinWrites,
                       yar, espOut>>]_vars

\* countPulse has run once since attachInterrupt, before the rest of the
\* window, with a frame of the window before still in the buffers.
C19_Witness ==
    /\ pcS = "attached" /\ attached /\ pulseCount = 1 /\ edgesSince = 1
    /\ espOut # <<>>

\* The time pulses have been accumulating for: since startup before the
\* first evaluation, since the previous evaluation afterwards.
Accumulated == now - (IF espOut = <<>> THEN 0 ELSE startTime)

\* C20: every window-boundary evaluation, the first one after startup
\* included, begins only when a full window (10 s) of pulse accumulation has
\* elapsed since startup or since the previous evaluation.
C20_FullWindowFirst ==
    pcS \in {"detached", "computed", "reset", "attached"}
        => Accumulated >= MEASUREMENT_DURATION_MS

(***************************************************************************)
(* Claims about Cal_RPM on its own (RpmSpec).                              *)
(***************************************************************************)

\* C11: whenever Cal_RPM runs with a pulse count of 0, prpm and the reported
\* Sensor3_Val are 0 afterwards, whatever the previous estimate was.
C11_ZeroCountZeroEstimate ==
    pcS \in {"computed", "reset", "attached"} /\ used = 0
        => prpm = 0 /\ Sensor3_Val = 0

\* Cal_RPM has run on an empty window with an estimate of 1500 before it.
C11_Witness ==
    pcS = "computed" /\ used = 0 /\ prpmBefore = 1500 /\ prpm = 0
        /\ Sensor3_Val = 0

Between(a, b, x) == (a <= x /\ x <= b) \/ (b <= x /\ x <= a)

\* C12: for every non-zero pulse count the counter can hold and every
\* previous estimate, the estimate Cal_RPM computes lies between the previous
\* estimate and the raw estimate 3 x count (as an int), inclusive.
C12_SmoothedBetween ==
    pcS = "computed" /\ used # 0
        => Between(prpmBefore, Int16(used * 3), prpm)

(***************************************************************************)
(* Claims about the encoder after Cal_RPM (EncSpec).                       *)
(***************************************************************************)
DigitValue(c) == (CHOOSE k \in 1..10 : DigitChars[k] = c) - 1

\* The number a string of digits denotes.
RECURSIVE StrToNat(_)
StrToNat(f) ==
    IF Len(f) = 0 THEN 0
    ELSE 10 * StrToNat(SubSeq(f, 1, Len(f) - 1)) + DigitValue(f[Len(f)])

SensorVals ==
    <<Sensor1_Val, Sensor2_Val, Sensor3_Val, Sensor4_Val, Sensor5_Val,
      Sensor6_Val, Sensor7_Val, Sensor8_Val>>

\* C18: every numeric field of a frame is the plain decimal representation
\* of the value (0..65535) held in the Sensor variable it is written from:
\* digits only, no minus sign, numerically equal to the stored value.
C18_PlainDecimal ==
    (pcS = "loop" /\ espOut # <<>>) =>
        \A i \in 1..8 :
            LET f == Split(espOut)[i + 1]
            IN  IsDigits(f) /\ StrToNat(f) = SensorVals[i]

(***************************************************************************)
(* Further properties of Cal_RPM on its own (RpmSpec).                     *)
(***************************************************************************)

\* The raw estimate as the program holds it: pulseCount * 3 in an int.
RawEstimate(count) == Int16(count * 3)

C24_SmallCurrentIsZero ==
    [][(RelayStep /\ rawCurrent' < 20) =>
        Sensor1_Val' = 0 /\ RLY1_STATUS' = 0 /\ pin'[1] = HIGH]_vars

\* A window has read 15 on the current input with channel 1 ON from the
\* window before: the flag went OFF and the pin was written, while the
\* voltage channel is ON.
C24_Witness ==
    /\ pcS = "loop" /\ espOut # <<>> /\ rawCurrent = 15
    /\ Sensor1_Val = 0 /\ RLY1_STATUS = 0 /\ pin[1] = HIGH
    /\ pinWrites[1] = 1
    /\ RLY2_STATUS = 1

\* The number a numeric field denotes, with its sign.
FieldValue(f) ==
    IF Len(f) >= 1 /\ f[1] = "-" THEN 0 - StrToNat(Tail(f)) ELSE StrToNat(f)

\* C28: every frame emitted is self-consistent: its relay-status field r1
\* is "ON" iff its current field is above 230, r2 iff its voltage field is
\* above 10000, r3 iff its temperature field is above 30, and each is "OFF"
\* otherwise, also in windows whose DHT read failed.
C28_FrameSelfConsistent ==
    espOut # <<>> =>
        LET fs == Split(espOut)
            token(v, bound) == IF FieldValue(v) > bound THEN ON ELSE OFF
        IN  /\ Len(fs) = NumFields
            /\ fs[10] = token(fs[2], 230)
            /\ fs[11] = token(fs[3], 10000)
            /\ fs[12] = token(fs[5], 30)

\* A frame of a window whose DHT read failed: current 231 with r1 ON,
\* voltage 10000 with r2 OFF, retained temperature 31 with r3 ON.
C28_Witness ==
    /\ espOut # <<>> /\ dhtFailed
    /\ SubSeq(Split(espOut), 2, 3) = <<FmtD(231), FmtD(10000)>>
    /\ Split(espOut)[5] = FmtD(31)
    /\ SubSeq(Split(espOut), 10, 12) = <<ON, OFF, ON>>

(***************************************************************************)
(* Buffers of the Forwarding Node (FwdSpec).                               *)
(***************************************************************************)

\* C22: whatever line arrives, each field stored in data1..data14 is at most
\* 29 characters long and the line stored in receivedBuffer at most 500: no
\* field or line buffer is written past its end.
C22_FieldsAndLineBounded ==
    /\ \A i \in 1..NumFields : Len(data[i]) <= FieldWidth
    /\ Len(lastLine) <= LineMax

\* A line of more than 500 characters has been read: receivedBuffer holds
\* its first 500, every field buffer 29, and the rest waits in the receive
\* buffer.
C22_Witness ==
    /\ Len(lastLine) = LineMax /\ rx # <<>>
    /\ \A i \in 1..NumFields : Len(data[i]) = FieldWidth

\* C25: every body POSTed is built entirely from the line read in the same
\* loop iteration: sscanf has assigned all 13 buffers the body is made of
\* from that line, and none holds what an earlier line (or none) left.
C25_BodyFromThisLine ==
    posted # <<>> => numParsed >= NumFields - 1

\* C27: the JSON body sendData formats, with its terminator, fits the
\* 300-byte jsonBuffer, for any 13 decoded fields of up to 29 characters.
C27_BodyFitsBuffer ==
    sendLog.formatted + 1 <= JsonBufferSize

(***************************************************************************)
(* The two nodes together (SysSpec, SysLiveSpec).                          *)
(***************************************************************************)

\* The window test of loop() succeeds.
WindowDue ==
    pcS = "loop" /\ ElapsedAtLeast(now, startTime, MEASUREMENT_DURATION_MS)

\* The window that was due has been evaluated: loop() is back at its test
\* with startTime reset, a frame written, and flags and pins as the bounds
\* applied to the current sample say.
WindowDone ==
    /\ pcS = "loop" /\ ~WindowDue
    /\ espOut # <<>>
    /\ RLY1_STATUS = (IF Sensor1_Val > CURRENT_NORMAL THEN 1 ELSE 0)
    /\ RLY2_STATUS = (IF Sensor2_Val > VOLTAGE_NORMAL THEN 1 ELSE 0)
    /\ RLY3_STATUS = (IF Sensor4_Val > DHT11_NORMAL THEN 1 ELSE 0)
    /\ pin = <<IF RLY1_STATUS = 1 THEN LOW ELSE HIGH,
               IF RLY2_STATUS = 1 THEN LOW ELSE HIGH,
               IF RLY3_STATUS = 1 THEN LOW ELSE HIGH>>

\* C21: whatever the Forwarding Node and the uplink do (never associated,
\* POST failing, the node stuck or not reading), every window that falls
\* due on the Sensing Node is evaluated: Cal_RPM, ReadSensor_values and
\* RelayOperation run, the pins follow the current sample and a frame is
\* written.
C21_WindowsKeepRunning == WindowDue ~> WindowDone

\* The second window has been evaluated while the Forwarding Node is still
\* in setup() without WiFi and has read nothing: both frames wait in its
\* receive buffer.
C21_Witness ==
    /\ WindowDone /\ now = MEASUREMENT_DURATION_MS /\ startTime = now
    /\ pcF = "setup" /\ ~wifi /\ sendLog.calls = 0
    /\ Len(rx) > Len(espOut)

\* A frame as the Sensing Node writes it: 14 fields from the tag to RSV.
IsOneFrame(line) ==
    LET fs == Split(line)
    IN  Len(fs) = NumFields /\ fs[1] = TAG /\ fs[NumFields] = RSV

\* C26: each line the Forwarding Node parses is exactly one frame the
\* Sensing Node wrote, under every interleaving of the frame writes with
\* the Forwarding Node's loop: no two frames run together into one line and
\* no frame is split over two.
C26_LineIsOneFrame == sendLog.calls = 1 => IsOneFrame(lastLine)

====
